---- MODULE Spec2Model ----
(***************************************************************************)
(* A model of sudokuSolver.cpp: the validator, the peer enumeration, the   *)
(* domain store, AC-3, the cell and value heuristics, the three recursive  *)
(* search routines and solve().                                            *)
(***************************************************************************)
EXTENDS Integers, Sequences, FiniteSets, TLC

(***************************************************************************)
(* Program constants.                                                      *)
(***************************************************************************)
Size == 9
BoxSize == 3

Idx == 0 .. (Size - 1)
Digits == 1 .. Size
Cells == Idx \X Idx
NoSquare == <<-1, -1>>

\* Row-major enumeration of the 81 squares: the order of every "for i, for j" scan.
CellAt(k) == <<k \div Size, k % Size>>
ScanOrder == [k \in 1 .. (Size * Size) |-> CellAt(k - 1)]

\* Elements of a sequence as a set.
Range(s) == {s[k] : k \in 1 .. Len(s)}

(***************************************************************************)
(* isValid, lines 58-76.                                                   *)
(***************************************************************************)
\* The box origin taken with % in place of /.
boxRow_Mod(row) == (row % BoxSize) * BoxSize

boxRow(row) == (row \div BoxSize) * BoxSize
boxCol(col) == (col \div BoxSize) * BoxSize

\* isValid without the scan of the box.
isValid_NoBox(b, row, col, value) ==
    \A i \in Idx : ~(value = b[<<i, col>>] \/ value = b[<<row, i>>])

isValid(b, row, col, value) ==
    /\ \A i \in Idx : ~(value = b[<<i, col>>] \/ value = b[<<row, i>>])
    /\ \A r \in boxRow(row) .. (boxRow(row) + BoxSize - 1) :
         \A c \in boxCol(col) .. (boxCol(col) + BoxSize - 1) :
            value # b[<<r, c>>]

(***************************************************************************)
(* getRelated, lines 85-113: the row and column squares interleaved, then  *)
(* the squares of the box that are not in the list yet.                    *)
(***************************************************************************)
RECURSIVE RelatedLines(_, _, _)
RelatedLines(row, col, i) ==
    IF i = Size THEN <<>>
    ELSE (IF i # col THEN << <<row, i>> >> ELSE <<>>)
         \o (IF i # row THEN << <<i, col>> >> ELSE <<>>)
         \o RelatedLines(row, col, i + 1)

\* The box scan without the duplicate check.
RECURSIVE RelatedBox_NoDuplicateCheck(_, _, _, _)
RelatedBox_NoDuplicateCheck(row, col, related, k) ==
    IF k = BoxSize * BoxSize THEN related
    ELSE LET i == boxRow(row) + (k \div BoxSize)
             j == boxCol(col) + (k % BoxSize)
         IN  IF i = row /\ j = col
             THEN RelatedBox_NoDuplicateCheck(row, col, related, k + 1)
             ELSE RelatedBox_NoDuplicateCheck(row, col, Append(related, <<i, j>>), k + 1)

RECURSIVE RelatedBox(_, _, _, _)
RelatedBox(row, col, related, k) ==
    IF k = BoxSize * BoxSize THEN related
    ELSE LET i == boxRow(row) + (k \div BoxSize)
             j == boxCol(col) + (k % BoxSize)
             duplicate == \E n \in 1 .. Len(related) : related[n] = <<i, j>>
         IN  IF (i = row /\ j = col) \/ duplicate
             THEN RelatedBox(row, col, related, k + 1)
             ELSE RelatedBox(row, col, Append(related, <<i, j>>), k + 1)

getRelated(row, col) == RelatedBox(row, col, RelatedLines(row, col, 0), 0)

\* getRelated of every square, computed once.
Related == [sq \in Cells |-> getRelated(sq[1], sq[2])]

(***************************************************************************)
(* findValid, lines 122-128, and initDomains, lines 244-259.               *)
(***************************************************************************)
findValid(b, row, col) ==
    SelectSeq([k \in 1 .. Size |-> k], LAMBDA v : isValid(b, row, col, v))

initDomains(b) ==
    [sq \in Cells |-> IF b[sq] # 0 THEN <<b[sq]>> ELSE findValid(b, sq[1], sq[2])]

(***************************************************************************)
(* update, lines 268-288: squarei keeps the values that differ from some   *)
(* value of squarej.                                                       *)
(***************************************************************************)
\* update keeping a value only if it differs from every value of squarej.
updateDomain_Strict(di, dj) ==
    SelectSeq(di, LAMBDA i : \A n \in 1 .. Len(dj) : i # dj[n])

\* update without the comparison i != j.
updateDomain_NoCompare(di, dj) ==
    SelectSeq(di, LAMBDA i : \E n \in 1 .. Len(dj) : TRUE)

updateDomain(di, dj) ==
    SelectSeq(di, LAMBDA i : \E n \in 1 .. Len(dj) : i # dj[n])

update(doms, squarei, squarej) ==
    LET newDomain == updateDomain(doms[squarei], doms[squarej])
    IN  [domains |-> [doms EXCEPT ![squarei] = newDomain],
         updated |-> Len(newDomain) # Len(doms[squarei])]

(***************************************************************************)
(* ac3, lines 295-328.  The queue is seeded with every (square, related)   *)
(* arc in scan order; one iteration of the while loop is Ac3Iter.          *)
(***************************************************************************)
RECURSIVE SeedArcs(_)
SeedArcs(k) ==
    IF k > Size * Size THEN <<>>
    ELSE [n \in 1 .. Len(Related[ScanOrder[k]]) |->
             <<ScanOrder[k], Related[ScanOrder[k]][n]>>] \o SeedArcs(k + 1)

InitialArcs == SeedArcs(1)

\* The arcs pushed back after squarei's domain changed, lines 317-324.
\* The arcs pushed back with their ends swapped.
Readd_Swapped(squarei) ==
    LET rel == SelectSeq(Related[squarei], LAMBDA sq : sq # squarei)
    IN  [n \in 1 .. Len(rel) |-> <<squarei, rel[n]>>]

Readd(squarei) ==
    LET rel == SelectSeq(Related[squarei], LAMBDA sq : sq # squarei)
    IN  [n \in 1 .. Len(rel) |-> <<rel[n], squarei>>]

Ac3Start(doms) == [domains |-> doms, arcs |-> InitialArcs, status |-> "running"]

\* ac3 without the return on an empty domain.
Ac3Iter_NoReturn(s) ==
    IF s.status # "running" THEN s
    ELSE IF s.arcs = <<>> THEN [s EXCEPT !.status = "true"]
    ELSE LET squarei == Head(s.arcs)[1]
             squarej == Head(s.arcs)[2]
             u == update(s.domains, squarei, squarej)
         IN  IF u.updated
             THEN [domains |-> u.domains,
                   arcs |-> Tail(s.arcs) \o Readd(squarei),
                   status |-> "running"]
             ELSE [domains |-> u.domains, arcs |-> Tail(s.arcs), status |-> "running"]

Ac3Iter(s) ==
    IF s.status # "running" THEN s
    ELSE IF s.arcs = <<>> THEN [s EXCEPT !.status = "true"]
    ELSE LET squarei == Head(s.arcs)[1]
             squarej == Head(s.arcs)[2]
             u == update(s.domains, squarei, squarej)
         IN  IF u.updated
             THEN IF u.domains[squarei] = <<>>
                  THEN [domains |-> u.domains, arcs |-> Tail(s.arcs), status |-> "false"]
                  ELSE [domains |-> u.domains,
                        arcs |-> Tail(s.arcs) \o Readd(squarei),
                        status |-> "running"]
             ELSE [domains |-> u.domains, arcs |-> Tail(s.arcs), status |-> "running"]

\* The while loop: Ac3Iter repeated until ac3 returns.
RECURSIVE Ac3Loop(_, _)
Ac3Loop(s, n) ==
    IF s.status # "running" THEN s
    ELSE IF n = 1 THEN Ac3Iter(s)
    ELSE Ac3Loop(Ac3Loop(s, n \div 2), n - (n \div 2))

\* No run has more iterations: the seeded arcs, plus one Readd per removed value.
Ac3MaxIterations == Len(InitialArcs) + Size * Size * Size * Len(Related[<<0, 0>>])

ac3(doms) == Ac3Loop(Ac3Start(doms), Ac3MaxIterations)


(***************************************************************************)
(* fillSingles, lines 335-343.                                             *)
(***************************************************************************)
fillSingles(b, doms) ==
    [sq \in Cells |-> IF b[sq] = 0 /\ Len(doms[sq]) = 1 THEN doms[sq][1] ELSE b[sq]]

(***************************************************************************)
(* findEmpty, lines 349-358, and findEmptyMAC, lines 365-374.              *)
(***************************************************************************)
\* findEmpty answering the first square when no square is empty.
findEmpty_NoSentinel(b) ==
    LET empties == {k \in 1 .. (Size * Size) : b[ScanOrder[k]] = 0}
    IN  IF empties = {} THEN ScanOrder[1]
        ELSE ScanOrder[CHOOSE k \in empties : \A j \in empties : k <= j]

findEmpty(b) ==
    LET empties == {k \in 1 .. (Size * Size) : b[ScanOrder[k]] = 0}
    IN  IF empties = {} THEN NoSquare
        ELSE ScanOrder[CHOOSE k \in empties : \A j \in empties : k <= j]

findEmptyMAC(b, doms) == findEmpty(b)

(***************************************************************************)
(* The scan shared by findEmptyMRV, lines 381-401, and findEmptyMRVMAC,    *)
(* lines 408-427: count[sq] is the number of values left for sq.           *)
(***************************************************************************)
RECURSIVE MRVScan(_, _, _, _, _)
MRVScan(b, count, k, smallest, square) ==
    IF k > Size * Size THEN square
    ELSE LET sq == ScanOrder[k]
         IN  IF b[sq] # 0 THEN MRVScan(b, count, k + 1, smallest, square)
             ELSE IF count[sq] < smallest
                  THEN IF count[sq] = 0 \/ count[sq] = 1 THEN sq
                       ELSE MRVScan(b, count, k + 1, count[sq], sq)
                  ELSE MRVScan(b, count, k + 1, smallest, square)

findEmptyMRV(b) ==
    MRVScan(b, [sq \in Cells |-> Len(findValid(b, sq[1], sq[2]))], 1, Size + 1, NoSquare)

findEmptyMRVMAC(b, doms) ==
    MRVScan(b, [sq \in Cells |-> Len(doms[sq])], 1, Size + 1, NoSquare)

(***************************************************************************)
(* hasFuture, lines 433-451.                                               *)
(***************************************************************************)
\* hasFuture without the skip of filled squares.
hasFuture_NoSkip(b) ==
    \A sq \in Cells : \E v \in Digits : isValid(b, sq[1], sq[2], v)

hasFuture(b) ==
    \A sq \in Cells : b[sq] # 0 \/ \E v \in Digits : isValid(b, sq[1], sq[2], v)

(***************************************************************************)
(* findValidMAC, lines 136-138.                                            *)
(***************************************************************************)
findValidMAC(doms, row, col) == doms[<<row, col>>]

(***************************************************************************)
(* The sorted insertion of findValidLCV (lines 187-191) and of             *)
(* findValidLCVMAC (lines 231-233): after the leading pairs whose count is *)
(* not larger.                                                             *)
(***************************************************************************)
RECURSIVE InsertPos(_, _, _)
InsertPos(valueConstraints, constraints, pos) ==
    IF pos < Len(valueConstraints) /\ valueConstraints[pos + 1][2] <= constraints
    THEN InsertPos(valueConstraints, constraints, pos + 1)
    ELSE pos

InsertPair(valueConstraints, value, constraints) ==
    LET pos == InsertPos(valueConstraints, constraints, 0)
    IN  SubSeq(valueConstraints, 1, pos) \o << <<value, constraints>> >>
        \o SubSeq(valueConstraints, pos + 1, Len(valueConstraints))

Firsts(valueConstraints) == [n \in 1 .. Len(valueConstraints) |-> valueConstraints[n][1]]

\* Number of values isValid accepts at a square.
CountValid(b, row, col) == Cardinality({k \in Digits : isValid(b, row, col, k)})

RECURSIVE SumOver(_, _)
SumOver(f, S) ==
    IF S = {} THEN 0
    ELSE LET x == CHOOSE x \in S : TRUE IN f[x] + SumOver(f, S \ {x})

(***************************************************************************)
(* findValidLCV, lines 148-197.  LCVConstraints is the count for value i   *)
(* with i placed at (row, col): the row and column loop, then the box loop *)
(* (a box square in the same row or column is counted in both).            *)
(***************************************************************************)
LCVConstraints(b, row, col, i) ==
    LET placed == [b EXCEPT ![<<row, col>>] = i]
        inRow == [j \in Idx |-> IF placed[<<row, j>>] = 0 /\ j # col
                                 THEN CountValid(placed, row, j) ELSE 0]
        inCol == [j \in Idx |-> IF placed[<<j, col>>] = 0 /\ j # row
                                 THEN CountValid(placed, j, col) ELSE 0]
        box == (boxRow(row) .. (boxRow(row) + BoxSize - 1))
                   \X (boxCol(col) .. (boxCol(col) + BoxSize - 1))
        inBox == [sq \in box |-> IF placed[sq] = 0 /\ (sq[1] # row \/ sq[2] # col)
                                  THEN CountValid(placed, sq[1], sq[2]) ELSE 0]
    IN  SumOver(inRow, Idx) + SumOver(inCol, Idx) + SumOver(inBox, box)

RECURSIVE LCVLoop(_, _, _, _, _)
LCVLoop(b, row, col, i, valueConstraints) ==
    IF i > Size THEN valueConstraints
    ELSE IF ~isValid(b, row, col, i) THEN LCVLoop(b, row, col, i + 1, valueConstraints)
    ELSE LCVLoop([b EXCEPT ![<<row, col>>] = 0], row, col, i + 1,
                 InsertPair(valueConstraints, i, LCVConstraints(b, row, col, i)))

\* The values in order, and the board as the function leaves it (line 186
\* writes 0 to the square after every value it tried).
findValidLCV(b, row, col) ==
    LET valueConstraints == LCVLoop(b, row, col, 1, <<>>)
    IN  [validNums |-> Firsts(valueConstraints),
         board |-> IF valueConstraints = <<>> THEN b ELSE [b EXCEPT ![<<row, col>>] = 0]]

(***************************************************************************)
(* findValidLCVMAC, lines 208-237.                                         *)
(***************************************************************************)
LCVMACConstraints(doms, row, col, val) ==
    LET related == Related[<<row, col>>]
        penalty == [n \in 1 .. Len(related) |->
                      LET d == doms[related[n]]
                          supportedCount == Cardinality({m \in 1 .. Len(d) : d[m] # val})
                      IN  IF d = <<>> THEN 0
                          ELSE IF supportedCount = 1 THEN 100 ELSE supportedCount]
    IN  SumOver(penalty, 1 .. Len(related))

RECURSIVE LCVMACLoop(_, _, _, _, _)
LCVMACLoop(doms, row, col, n, valueConstraints) ==
    IF n > Len(doms[<<row, col>>]) THEN valueConstraints
    ELSE LET val == doms[<<row, col>>][n]
         IN  LCVMACLoop(doms, row, col, n + 1,
                        InsertPair(valueConstraints, val, LCVMACConstraints(doms, row, col, val)))

findValidLCVMAC(doms, row, col) == Firsts(LCVMACLoop(doms, row, col, 1, <<>>))

(***************************************************************************)
(* The puzzles solve() is run on: a few grids, each with at most MaxEdits  *)
(* squares of EditCells overwritten by a blank or a digit of EditValues.   *)
(***************************************************************************)
MaxEdits == 1
MaxBranches == 1

Grid(digits) == [sq \in Cells |-> digits[sq[1] * Size + sq[2] + 1]]

\* A complete valid grid.
SolvedDigits ==
    <<5,3,4,6,7,8,9,1,2, 6,7,2,1,9,5,3,4,8, 1,9,8,3,4,2,5,6,7,
      8,5,9,7,6,1,4,2,3, 4,2,6,8,5,3,7,9,1, 7,1,3,9,2,4,8,5,6,
      9,6,1,5,3,7,2,8,4, 2,8,7,4,1,9,6,3,5, 3,4,5,2,8,6,1,7,9>>

\* One completion; every empty square starts with two or more legal values.
UniqueDigits ==
    <<5,3,4,6,7,8,9,1,2, 6,7,2,1,9,5,3,4,8, 1,9,8,3,4,2,5,6,7,
      8,5,9,7,6,1,4,2,3, 0,2,0,8,5,0,7,9,1, 7,0,0,9,2,0,8,5,6,
      9,0,0,5,3,7,2,8,4, 0,8,7,0,1,9,6,3,5, 0,0,5,0,8,0,1,7,9>>

\* Several completions.
ManyDigits ==
    <<5,3,4,0,0,8,9,1,2, 6,0,2,1,0,0,3,4,8, 1,0,8,3,4,2,5,6,7,
      8,5,9,0,0,0,4,2,3, 4,2,6,8,5,3,7,9,1, 7,1,3,9,2,4,8,5,6,
      9,6,1,5,3,7,2,8,4, 2,8,7,4,1,9,6,3,5, 3,4,5,2,8,6,1,7,9>>

\* No completion, no repeated digit, and AC-3 alone does not notice.
DeadDigits ==
    <<5,3,4,6,7,8,9,1,2, 6,7,2,1,9,5,3,4,8, 1,9,8,0,4,0,5,6,7,
      8,5,9,7,6,1,4,2,3, 0,2,0,8,5,0,7,9,1, 0,0,0,9,2,0,8,5,6,
      2,0,0,5,3,7,0,8,4, 0,8,0,0,1,9,0,3,5, 0,0,5,0,8,6,0,7,9>>

Seeds == {Grid(SolvedDigits), Grid(UniqueDigits), Grid(ManyDigits), Grid(DeadDigits)}
EditCells == {<<0, 1>>, <<4, 0>>}
EditValues == {0, 3, 4, 9}

RECURSIVE Edited(_, _)
Edited(grids, n) ==
    IF n = 0 THEN grids
    ELSE LET prev == Edited(grids, n - 1)
         IN  prev \cup {[g EXCEPT ![sq] = v] : g \in prev, sq \in EditCells, v \in EditValues}

Inputs == Edited(Seeds, MaxEdits)

EmptyDomains == [sq \in Cells |-> <<>>]
IdleRun == [domains |-> EmptyDomains, arcs |-> <<>>, status |-> "idle"]
NoAnswer == [row |-> 0, col |-> 0, value |-> 0, valid |-> FALSE]

\* SolveResult{}: every member zero.
ZeroResult == [board |-> [sq \in Cells |-> 0], solved |-> FALSE, steps |-> 0, backtracks |-> 0]
\* return {-1, -1, -1}, line 638: the first three ints of board, the rest zero.
InconsistentResult ==
    [ZeroResult EXCEPT !.board = [sq \in Cells |-> IF sq[1] = 0 /\ sq[2] < 3 THEN -1 ELSE 0]]

VARIABLES
    puzzle,       \* the grid solve() was called with
    board,        \* int board[9][9]
    method, emptyFinder, valueOrder, useAC3,   \* the menu choices solve() reads
    domains,      \* domains[1]: solve's domains; domains[k+1]: the domainsCopy of the
                  \* k-th pruningMAC frame, which is the domains of the frame it calls
    stack,        \* the frames of the recursive search, outermost first
    steps, backtracks,
    pc,           \* "solve", "call", "loop", "returned", "done"; "ac3", "isValid"
    retval,       \* what the call that has just returned returned
    called,       \* the board that call was entered with
    result,       \* the SolveResult
    run,          \* an ac3 call in progress: its domains, its queue, its outcome
    branches,     \* pruningMAC assignments made before that ac3 call
    answer        \* the last isValid call and what it returned

vars == <<puzzle, board, method, emptyFinder, valueOrder, useAC3, domains, stack,
          steps, backtracks, pc, retval, called, result, run, branches, answer>>

config == <<puzzle, method, emptyFinder, valueOrder, useAC3>>
aside == <<run, branches, answer>>

\* The function arguments solve passes, lines 643-678.
nextEmpty(b, doms) ==
    IF method = 3
    THEN IF emptyFinder = 1 THEN findEmptyMAC(b, doms) ELSE findEmptyMRVMAC(b, doms)
    ELSE IF emptyFinder = 1 THEN findEmpty(b) ELSE findEmptyMRV(b)

validNumFinder(b, doms, row, col) ==
    IF method = 3
    THEN [validNums |-> IF valueOrder = 1 THEN findValidMAC(doms, row, col)
                        ELSE findValidLCVMAC(doms, row, col),
          board |-> b]
    ELSE IF valueOrder = 1 THEN [validNums |-> findValid(b, row, col), board |-> b]
         ELSE findValidLCV(b, row, col)

Init ==
    /\ puzzle \in Inputs
    /\ board = puzzle
    /\ method \in 1 .. 3
    /\ emptyFinder \in 1 .. 2
    /\ valueOrder \in 1 .. 2
    /\ useAC3 \in 1 .. 2      \* never read into when method = 3: any value
    /\ domains = <<EmptyDomains>>
    /\ stack = <<>>
    /\ steps = 0
    /\ backtracks = 0
    /\ pc = "solve"
    /\ retval = FALSE
    /\ called = puzzle
    /\ result = ZeroResult
    /\ run = IdleRun
    /\ branches = 0
    /\ answer = NoAnswer

(***************************************************************************)
(* solve, lines 634-641: initDomains, ac3 and fillSingles.                 *)
(***************************************************************************)
SolveWithAC3 ==
    /\ pc = "solve"
    /\ useAC3 = 1 \/ method = 3
    /\ LET r == ac3(initDomains(board))
       IN  /\ domains' = <<r.domains>>
           /\ IF r.status = "false"
              THEN /\ result' = InconsistentResult
                   /\ pc' = "done"
                   /\ UNCHANGED board
              ELSE /\ board' = fillSingles(board, r.domains)
                   /\ pc' = "call"
                   /\ UNCHANGED result
    /\ UNCHANGED <<config, stack, steps, backtracks, retval, called, aside>>

SolveWithoutAC3 ==
    /\ pc = "solve"
    /\ ~(useAC3 = 1 \/ method = 3)
    /\ pc' = "call"
    /\ UNCHANGED <<config, board, domains, stack, steps, backtracks, retval, called,
                   result, aside>>

(***************************************************************************)
(* The head of pruning (463-472), forwardChecking (497-506) and pruningMAC *)
(* (538-547): pick the square, return true if there is none, else count    *)
(* the step and list the values.                                           *)
(***************************************************************************)
Call ==
    /\ pc = "call"
    /\ LET doms == domains[Len(stack) + 1]
           emptysquare == nextEmpty(board, doms)
           row == emptysquare[1]
           col == emptysquare[2]
           found == validNumFinder(board, doms, row, col)
       IN  IF emptysquare = NoSquare
           THEN /\ retval' = TRUE
                /\ called' = board
                /\ pc' = "returned"
                /\ UNCHANGED <<board, stack, steps>>
           ELSE /\ steps' = steps + 1
                /\ board' = found.board
                /\ stack' = Append(stack, [row |-> row, col |-> col,
                                           validNums |-> found.validNums, i |-> 1,
                                           entry |-> board])
                /\ pc' = "loop"
                /\ UNCHANGED <<retval, called>>
    /\ UNCHANGED <<config, domains, backtracks, result, aside>>

Top == stack[Len(stack)]
TopSquare == <<Top.row, Top.col>>
\* The loop without i++.
Advance_Stay == stack

Advance == [stack EXCEPT ![Len(stack)].i = @ + 1]

\* The undo without board[row][col] = 0.
Undo_NoReset(b) ==
    /\ backtracks' = backtracks + 1
    /\ board' = b
    /\ stack' = Advance
    /\ pc' = "loop"

\* The undo without backtracks++.
Undo_NoCount(b) ==
    /\ backtracks' = backtracks
    /\ board' = [b EXCEPT ![TopSquare] = 0]
    /\ stack' = Advance
    /\ pc' = "loop"

\* backtracks++; board[row][col] = 0; and on to the next value.
Undo(b) ==
    /\ backtracks' = backtracks + 1
    /\ board' = [b EXCEPT ![TopSquare] = 0]
    /\ stack' = Advance
    /\ pc' = "loop"

(***************************************************************************)
(* One value of the loop of pruning, lines 474-476.                        *)
(***************************************************************************)
TryPruning ==
    /\ pc = "loop"
    /\ method = 1
    /\ Top.i <= Len(Top.validNums)
    /\ board' = [board EXCEPT ![TopSquare] = Top.validNums[Top.i]]
    /\ pc' = "call"
    /\ UNCHANGED <<config, domains, stack, steps, backtracks, retval, called, result, aside>>

(***************************************************************************)
(* One value of the loop of forwardChecking, lines 508-515.                *)
(***************************************************************************)
TryForwardChecking ==
    /\ pc = "loop"
    /\ method = 2
    /\ Top.i <= Len(Top.validNums)
    /\ LET placed == [board EXCEPT ![TopSquare] = Top.validNums[Top.i]]
       IN  IF ~hasFuture(placed)
           THEN Undo(placed)
           ELSE /\ board' = placed
                /\ pc' = "call"
                /\ UNCHANGED <<stack, backtracks>>
    /\ UNCHANGED <<config, domains, steps, retval, called, result, aside>>

(***************************************************************************)
(* One value of the loop of pruningMAC, lines 549-560 and 567-568.         *)
(***************************************************************************)
\* The clone without domainsCopy[row][col] = {validNums[i]}.
CloneFor_NoAssign(doms, sq, value) == doms

CloneFor(doms, sq, value) == [doms EXCEPT ![sq] = <<value>>]

TryMAC ==
    /\ pc = "loop"
    /\ method = 3
    /\ Top.i <= Len(Top.validNums)
    /\ LET value == Top.validNums[Top.i]
           placed == [board EXCEPT ![TopSquare] = value]
           domainsCopy == CloneFor(domains[Len(stack)], TopSquare, value)
           r == ac3(domainsCopy)
       IN  IF r.status = "true"
           THEN /\ domains' = Append(domains, r.domains)
                /\ board' = placed
                /\ pc' = "call"
                /\ UNCHANGED <<stack, backtracks>>
           ELSE /\ Undo(placed)
                /\ UNCHANGED domains
    /\ UNCHANGED <<config, steps, retval, called, result, aside>>

(***************************************************************************)
(* The loop is over: return false (lines 484, 523, 570).                   *)
(***************************************************************************)
Exhausted ==
    /\ pc = "loop"
    /\ Top.i > Len(Top.validNums)
    /\ retval' = FALSE
    /\ called' = Top.entry
    /\ stack' = SubSeq(stack, 1, Len(stack) - 1)
    /\ pc' = "returned"
    /\ UNCHANGED <<config, board, domains, steps, backtracks, result, aside>>

(***************************************************************************)
(* The recursive call has returned into the loop: lines 476-482, 515-521,  *)
(* 560-568.                                                                *)
(***************************************************************************)
\* The clone copied into the frame's domains after a failed branch too.
KeepDomains_Commit(doms, k) == Append(SubSeq(doms, 1, k - 1), doms[k + 1])

KeepDomains(doms, k) == SubSeq(doms, 1, k)
CommitDomains(doms, k) == Append(SubSeq(doms, 1, k - 1), doms[k + 1])

Resume ==
    /\ pc = "returned"
    /\ stack # <<>>
    /\ IF retval
       THEN /\ called' = Top.entry
            /\ stack' = SubSeq(stack, 1, Len(stack) - 1)
            /\ domains' = IF method = 3 THEN CommitDomains(domains, Len(stack)) ELSE domains
            /\ UNCHANGED <<board, backtracks, pc, retval>>
       ELSE /\ Undo(board)
            /\ domains' = IF method = 3 THEN KeepDomains(domains, Len(stack)) ELSE domains
            /\ UNCHANGED <<retval, called>>
    /\ UNCHANGED <<config, steps, result, aside>>

(***************************************************************************)
(* solve, lines 679-689: the SolveResult.                                  *)
(***************************************************************************)
Finish ==
    /\ pc = "returned"
    /\ stack = <<>>
    /\ result' = [board |-> board, solved |-> retval, steps |-> steps,
                  backtracks |-> backtracks]
    /\ pc' = "done"
    /\ UNCHANGED <<config, board, domains, stack, steps, backtracks, retval, called, aside>>

Next ==
    \/ SolveWithAC3
    \/ SolveWithoutAC3
    \/ Call
    \/ TryPruning
    \/ TryForwardChecking
    \/ TryMAC
    \/ Exhausted
    \/ Resume
    \/ Finish

Spec == Init /\ [][Next]_vars

(***************************************************************************)
(* ac3 iteration by iteration, on the domain stores the program hands it:  *)
(* initDomains of the puzzle (solve, line 636) and, after a consistent     *)
(* run, the store with the square pruningMAC picks set to one value of     *)
(* its domain (lines 556-559).                                             *)
(***************************************************************************)
InitAC3 ==
    /\ puzzle \in Inputs
    /\ board = puzzle
    /\ method = 3
    /\ emptyFinder \in 1 .. 2
    /\ valueOrder = 1
    /\ useAC3 = 2
    /\ domains = <<EmptyDomains>>
    /\ stack = <<>>
    /\ steps = 0
    /\ backtracks = 0
    /\ pc = "ac3"
    /\ retval = FALSE
    /\ called = puzzle
    /\ result = ZeroResult
    /\ run = Ac3Start(initDomains(puzzle))
    /\ branches = 0
    /\ answer = NoAnswer

\* One iteration of the while loop of ac3, lines 308-327.
Revise ==
    /\ pc = "ac3"
    /\ run.status = "running"
    /\ run' = Ac3Iter(run)
    /\ UNCHANGED <<config, board, domains, stack, steps, backtracks, pc, retval, called,
                   result, branches, answer>>

\* pruningMAC assigns a value of the square it picked and calls ac3 on the clone.
Branch ==
    /\ pc = "ac3"
    /\ run.status = "true"
    /\ branches < MaxBranches
    /\ LET b == IF branches = 0 THEN fillSingles(board, run.domains) ELSE board
           sq == nextEmpty(b, run.domains)
       IN  /\ sq # NoSquare
           /\ \E n \in 1 .. Len(run.domains[sq]) :
                 /\ board' = [b EXCEPT ![sq] = run.domains[sq][n]]
                 /\ run' = Ac3Start(CloneFor(run.domains, sq, run.domains[sq][n]))
    /\ branches' = branches + 1
    /\ UNCHANGED <<config, domains, stack, steps, backtracks, pc, retval, called, result,
                   answer>>

NextAC3 == Revise \/ Branch

SpecAC3 == InitAC3 /\ [][NextAC3]_vars

(***************************************************************************)
(* The runs that have to end: a solve, and a call of ac3 on the domains of *)
(* a puzzle, iteration by iteration.  The program is sequential: a step    *)
(* that can be taken is taken.                                             *)
(***************************************************************************)
InitTerm == (InitAC3 /\ emptyFinder = 1) \/ Init

NextTerm == Revise \/ Next

SpecTerm == InitTerm /\ [][NextTerm]_vars /\ WF_vars(NextTerm)

(***************************************************************************)
(* isValid applied to a square and a value of a grid.                      *)
(***************************************************************************)
InitValid ==
    /\ puzzle \in Inputs
    /\ board = puzzle
    /\ method = 1
    /\ emptyFinder = 1
    /\ valueOrder = 1
    /\ useAC3 = 2
    /\ domains = <<EmptyDomains>>
    /\ stack = <<>>
    /\ steps = 0
    /\ backtracks = 0
    /\ pc = "isValid"
    /\ retval = FALSE
    /\ called = puzzle
    /\ result = ZeroResult
    /\ run = IdleRun
    /\ branches = 0
    /\ answer = NoAnswer

IsValidCall ==
    /\ pc = "isValid"
    /\ \E row, col \in Idx, value \in Digits :
          answer' = [row |-> row, col |-> col, value |-> value,
                     valid |-> isValid(board, row, col, value)]
    /\ pc' = "done"
    /\ UNCHANGED <<config, board, domains, stack, steps, backtracks, retval, called,
                   result, run, branches>>

NextValid == IsValidCall

SpecValid == InitValid /\ [][NextValid]_vars

(***************************************************************************)
(* getRelated applied to two squares.                                      *)
(***************************************************************************)
InitRelated ==
    /\ puzzle = Grid(SolvedDigits)
    /\ board = puzzle
    /\ method = 1
    /\ emptyFinder = 1
    /\ valueOrder = 1
    /\ useAC3 = 2
    /\ domains = <<EmptyDomains>>
    /\ stack = <<>>
    /\ steps = 0
    /\ backtracks = 0
    /\ pc = "getRelated"
    /\ retval = FALSE
    /\ called = puzzle
    /\ result = ZeroResult
    /\ run = IdleRun
    /\ branches = 0
    /\ answer = NoAnswer

GetRelatedCall ==
    /\ pc = "getRelated"
    /\ \E a, b \in Cells :
          answer' = [a |-> a, b |-> b,
                     relatedA |-> getRelated(a[1], a[2]),
                     relatedB |-> getRelated(b[1], b[2])]
    /\ pc' = "done"
    /\ UNCHANGED <<config, board, domains, stack, steps, backtracks, retval, called,
                   result, run, branches>>

NextRelated == GetRelatedCall

SpecRelated == InitRelated /\ [][NextRelated]_vars

(***************************************************************************)
(* update applied to the domains of two squares: every pair of lists of    *)
(* values in ascending order, as initDomains builds them and update keeps  *)
(* them.                                                                   *)
(***************************************************************************)
RECURSIVE Ascending(_)
Ascending(S) ==
    IF S = {} THEN <<>>
    ELSE LET least == CHOOSE v \in S : \A w \in S : v <= w
         IN  <<least>> \o Ascending(S \ {least})

DomainLists == {Ascending(S) : S \in SUBSET Digits}

UpdateSquareI == <<0, 0>>
UpdateSquareJ == <<0, 1>>

InitUpdate ==
    /\ puzzle = Grid(SolvedDigits)
    /\ board = puzzle
    /\ method = 1
    /\ emptyFinder = 1
    /\ valueOrder = 1
    /\ useAC3 = 1
    /\ domains = <<EmptyDomains>>
    /\ stack = <<>>
    /\ steps = 0
    /\ backtracks = 0
    /\ pc = "update"
    /\ retval = FALSE
    /\ called = puzzle
    /\ result = ZeroResult
    /\ run = IdleRun
    /\ branches = 0
    /\ answer = NoAnswer

UpdateCall ==
    /\ pc = "update"
    /\ \E di, dj \in DomainLists :
          LET before == [EmptyDomains EXCEPT ![UpdateSquareI] = di, ![UpdateSquareJ] = dj]
              u == update(before, UpdateSquareI, UpdateSquareJ)
          IN  /\ domains' = <<u.domains>>
              /\ answer' = [di |-> di, dj |-> dj, updated |-> u.updated]
    /\ pc' = "done"
    /\ UNCHANGED <<config, board, stack, steps, backtracks, retval, called, result, run,
                   branches>>

NextUpdate == UpdateCall

SpecUpdate == InitUpdate /\ [][NextUpdate]_vars

(***************************************************************************)
(* What the claims speak of, stated without the program's functions.       *)
(***************************************************************************)
SameUnit(a, b) ==
    /\ a # b
    /\ \/ a[1] = b[1]
       \/ a[2] = b[2]
       \/ a[1] \div BoxSize = b[1] \div BoxSize /\ a[2] \div BoxSize = b[2] \div BoxSize

Peers == [a \in Cells |-> {b \in Cells : SameUnit(a, b)}]

\* No digit twice in a row, a column or a box.
NoRepeats(g) == \A a \in Cells : g[a] = 0 \/ \A b \in Peers[a] : g[b] # g[a]

\* Two squares of one row hold the same digit.
RowRepeat(g) ==
    \E r \in Idx : \E c1, c2 \in Idx : c1 # c2 /\ g[<<r, c1>>] # 0 /\ g[<<r, c1>>] = g[<<r, c2>>]

Full(g) == \A sq \in Cells : g[sq] # 0

EmptyCount(g) == Cardinality({sq \in Cells : g[sq] = 0})

Candidates(g, sq) == {v \in Digits : \A b \in Peers[sq] : g[b] # v}

\* Every full grid without repeats that extends g (g itself without repeats).
RECURSIVE Extensions(_)
Extensions(g) ==
    LET empties == {sq \in Cells : g[sq] = 0}
    IN  IF empties = {} THEN {g}
        ELSE LET sq == CHOOSE sq \in empties :
                           \A other \in empties :
                               Cardinality(Candidates(g, sq)) <= Cardinality(Candidates(g, other))
             IN  UNION {Extensions([g EXCEPT ![sq] = v]) : v \in Candidates(g, sq)}

Completions(g) == IF NoRepeats(g) THEN Extensions(g) ELSE {}

RunsAC3 == useAC3 = 1 \/ method = 3

\* C1: a puzzle with exactly one valid completion is solved, in every configuration,
\* with that completion as the final grid.
C1_UniqueCompletionFound ==
    (pc = "done" /\ Cardinality(Completions(puzzle)) = 1)
        => result.solved /\ result.board \in Completions(puzzle)

C1_Witness ==
    /\ pc = "done" /\ method = 3 /\ emptyFinder = 2 /\ valueOrder = 2
    /\ result.solved /\ result.backtracks > 0
    /\ Cardinality(Completions(puzzle)) = 1

\* C2: from a grid without repeats, a search routine that returns true leaves the
\* board without zeros and without a repeated digit in any row, column or box.
C2_TrueMeansValidBoard ==
    (pc = "returned" /\ retval /\ NoRepeats(puzzle))
        => /\ \A sq \in Cells : board[sq] \in Digits
           /\ NoRepeats(board)

C2_Witness ==
    /\ pc = "returned" /\ retval /\ stack # <<>> /\ backtracks > 0
    /\ NoRepeats(puzzle)

\* C3: from a grid without repeats, solve answers solved = false only when the grid
\* has no valid completion.
C3_UnsolvedMeansNoCompletion ==
    (pc = "done" /\ ~result.solved /\ NoRepeats(puzzle)) => Completions(puzzle) = {}

C3_Witness ==
    /\ pc = "done" /\ ~result.solved /\ method = 3 /\ result.steps > 1
    /\ NoRepeats(puzzle)

\* C4: when a search routine returns false the board is the board it was called with.
C4_FalseRestoresBoard == (pc = "returned" /\ ~retval) => board = called

C4_Witness ==
    /\ pc = "returned" /\ ~retval /\ stack # <<>> /\ method = 3
    /\ backtracks > Len(stack)

\* C5: with a digit twice in one row, a solve that runs AC-3 never enters a search
\* routine: ac3 empties a domain and solve answers solved = false, 0 steps, 0 backtracks.
C5_RowRepeatRejected ==
    (RunsAC3 /\ RowRepeat(puzzle))
        => /\ pc \in {"solve", "done"}
           /\ stack = <<>> /\ steps = 0 /\ backtracks = 0
           /\ pc = "done" => /\ \E sq \in Cells : domains[1][sq] = <<>>
                             /\ ~result.solved
                             /\ result.steps = 0 /\ result.backtracks = 0

C5_Witness == pc = "done" /\ method = 2 /\ useAC3 = 1 /\ RowRepeat(puzzle) /\ ~Full(puzzle)

\* C6 as stated: every grid without zeros is answered solved = true, 0 steps,
\* 0 backtracks, the grid unchanged.
C6_FullGridSolved ==
    (pc = "done" /\ Full(puzzle))
        => result.solved /\ result.steps = 0 /\ result.backtracks = 0 /\ board = puzzle

\* C6 amended: a grid without zeros is answered at once, 0 steps, 0 backtracks, the
\* grid unchanged, and solved = true exactly when AC-3 is not run or the grid has no
\* repeated digit.
C6_FullGridAnswered ==
    Full(puzzle)
        => /\ stack = <<>> /\ steps = 0 /\ backtracks = 0 /\ board = puzzle
           /\ pc = "done" => /\ result.steps = 0 /\ result.backtracks = 0
                             /\ result.solved <=> (~RunsAC3 \/ NoRepeats(puzzle))

C6_Witness == pc = "done" /\ Full(puzzle) /\ NoRepeats(puzzle) /\ RunsAC3 /\ result.solved

\* C7: in pruningMAC the domains of a frame change only when a branch of that frame
\* has succeeded (the call it made returned true); a failed branch, by ac3 on the
\* clone or by the recursive call, leaves them as they were.
C7_FrameDomainsChange(k) == k <= Len(domains') /\ domains'[k] # domains[k]

C7_FailedBranchKeepsDomains ==
    [][(method = 3 /\ stack # <<>>)
          => \A k \in 1 .. Len(stack) :
                C7_FrameDomainsChange(k) => (pc = "returned" /\ retval /\ k = Len(stack))]_vars

C7_Witness ==
    /\ method = 3 /\ pc = "returned" /\ ~retval /\ stack # <<>>
    /\ Len(domains) = Len(stack) + 1
    /\ domains[Len(stack) + 1] # domains[Len(stack)]

\* C8: an iteration of ac3 adds no value to any domain and changes one domain at most,
\* and the iteration that empties a domain is the one in which ac3 returns false;
\* nothing changes after that.
C8_Shrinks ==
    \A sq \in Cells : Range(run'.domains[sq]) \subseteq Range(run.domains[sq])

C8_OneDomain ==
    Cardinality({sq \in Cells : run'.domains[sq] # run.domains[sq]}) <= 1

C8_EmptiedReturnsFalse ==
    (\E sq \in Cells : run.domains[sq] # <<>> /\ run'.domains[sq] = <<>>)
        => run'.status = "false"

C8_Ac3Monotone ==
    [][/\ run.status = "running" => C8_Shrinks /\ C8_OneDomain /\ C8_EmptiedReturnsFalse
       /\ run.status = "false" => run' = run]_vars

C8_Witness ==
    /\ run.status = "false" /\ branches = 1
    /\ \E sq \in Cells : run.domains[sq] = <<>> /\ board[sq] = 0

\* C9: when ac3 returns true, every value of every domain has a different value in the
\* domain of every peer.
C9_FixedPoint ==
    run.status = "true"
        => \A a \in Cells : \A b \in Peers[a] :
              \A v \in Range(run.domains[a]) : \E w \in Range(run.domains[b]) : w # v

C9_Witness ==
    /\ run.status = "true" /\ branches = 1
    /\ \E sq \in Cells : board[sq] = 0 /\ Len(run.domains[sq]) = 1
                         /\ Len(initDomains(puzzle)[sq]) > 1

\* C10: isValid answers false exactly when the value is somewhere in the row, in the
\* column or in the box of the square, and leaves the grid as it was.
InBoxOf(sq, row, col) ==
    sq[1] \div BoxSize = row \div BoxSize /\ sq[2] \div BoxSize = col \div BoxSize

Appears(g, row, col, value) ==
    \E sq \in Cells :
        /\ sq[1] = row \/ sq[2] = col \/ InBoxOf(sq, row, col)
        /\ g[sq] = value

C10_IsValidExact ==
    pc = "done"
        => /\ answer.valid <=> ~Appears(board, answer.row, answer.col, answer.value)
           /\ board = puzzle

C10_Witness ==
    /\ pc = "done" /\ ~answer.valid
    /\ \A sq \in Cells :
          (sq[1] = answer.row \/ sq[2] = answer.col) => board[sq] # answer.value

\* C11: getRelated lists B for A exactly when it lists A for B, which is exactly when
\* A and B differ and share a row, a column or a box; no square is listed for itself,
\* none is listed twice, and no list is longer than 20.
C11_PeersSymmetric ==
    pc = "done"
        => LET A == answer.a
               B == answer.b
               listsB == \E n \in 1 .. Len(answer.relatedA) : answer.relatedA[n] = B
               listsA == \E n \in 1 .. Len(answer.relatedB) : answer.relatedB[n] = A
           IN  /\ listsB <=> listsA
               /\ listsB <=> SameUnit(A, B)
               /\ \A n \in 1 .. Len(answer.relatedA) : answer.relatedA[n] # A
               /\ \A m, n \in 1 .. Len(answer.relatedA) :
                      m # n => answer.relatedA[m] # answer.relatedA[n]
               /\ Len(answer.relatedA) <= 20

C11_Witness ==
    /\ pc = "done"
    /\ answer.a[1] # answer.b[1] /\ answer.a[2] # answer.b[2]
    /\ \E n \in 1 .. Len(answer.relatedA) : answer.relatedA[n] = answer.b
    /\ Len(answer.relatedA) = 20

\* C13: with the MRV finder, the square picked is the sentinel exactly when no square
\* is empty, and otherwise the first, in scan order, of the empty squares with the
\* fewest legal values (values left in the domain for pruningMAC).
C13_Count(sq) ==
    IF method = 3 THEN Len(domains[Len(stack) + 1][sq])
    ELSE Cardinality(Candidates(board, sq))

C13_ScanIndex(sq) == sq[1] * Size + sq[2]

C13_MRVSmallestFirst ==
    (pc = "call" /\ emptyFinder = 2)
        => LET square == nextEmpty(board, domains[Len(stack) + 1])
               empties == {sq \in Cells : board[sq] = 0}
           IN  /\ square = NoSquare <=> empties = {}
               /\ square # NoSquare
                    => /\ square \in empties
                       /\ \A sq \in empties :
                             \/ C13_Count(square) < C13_Count(sq)
                             \/ /\ C13_Count(square) = C13_Count(sq)
                                /\ C13_ScanIndex(square) <= C13_ScanIndex(sq)

\* C14: findValidLCV lists exactly the legal values of the square, none twice, the
\* first of them a value that leaves the other empty squares of the row, column and
\* box the largest total of legal values, and the grid is as it was.
C14_Freedom(b, sq, v) ==
    LET placed == [b EXCEPT ![sq] = v]
    IN  Cardinality({cw \in Peers[sq] \X Digits :
                        b[cw[1]] = 0 /\ cw[2] \in Candidates(placed, cw[1])})

C14_LCVMostFreedomFirst ==
    (pc = "call" /\ method # 3 /\ valueOrder = 2)
        => LET square == nextEmpty(board, domains[Len(stack) + 1])
               found == findValidLCV(board, square[1], square[2])
               legal == Candidates(board, square)
           IN  square # NoSquare
                 => /\ Range(found.validNums) = legal
                    /\ Len(found.validNums) = Cardinality(legal)
                    /\ found.board = board
                    /\ legal # {}
                         => \A v \in legal :
                               C14_Freedom(board, square, v)
                                  <= C14_Freedom(board, square, found.validNums[1])

\* The textbook revision for all-different: v leaves A's domain exactly when B's
\* domain is the single value v.
C15_Textbook(di, dj) == SelectSeq(di, LAMBDA v : dj # <<v>>)

\* C15 as stated: there are domains A and B, B of two or more values, that update and
\* the textbook revision leave with different domains for A.
C15_RulesDivergeOnLargerDomains ==
    pc = "done"
        => \E di, dj \in DomainLists :
              /\ Len(dj) >= 2
              /\ updateDomain(di, dj) # C15_Textbook(di, dj)

\* C15 amended: update leaves A as the textbook revision does whenever B holds a
\* value; the two differ exactly when B is empty and A is not (update then empties A).
\* B is left as it was, and update answers true exactly when A lost a value.
C15_RulesAgreeUnlessEmpty ==
    pc = "done"
        => LET out == domains[1][UpdateSquareI]
           IN  /\ out # C15_Textbook(answer.di, answer.dj)
                     <=> (answer.dj = <<>> /\ answer.di # <<>>)
               /\ (answer.dj = <<>>) => out = <<>>
               /\ domains[1][UpdateSquareJ] = answer.dj
               /\ answer.updated <=> out # answer.di

C15_Witness ==
    /\ pc = "done"
    /\ Len(answer.dj) >= 2
    /\ \E n \in 1 .. Len(answer.di) : \E m \in 1 .. Len(answer.dj) : answer.di[n] = answer.dj[m]
    /\ domains[1][UpdateSquareI] = answer.di

\* C12: every solve finishes and every ac3 call returns.  Every step of a run moves it
\* up a bounded order, and a run that has not finished can take a step.  An iteration
\* of ac3 puts arcs back in the queue only when it has removed a value from a domain
\* (at most one arc per related square), so the queue length plus that many times the
\* number of values left goes down.  The position in the search, read as the loop
\* indices of the frames from the outermost in, goes up (lexicographically), and the
\* recursion below a call is never deeper than the number of squares that were empty
\* when it was called, 81 at most.
C12_Values(doms) ==
    Cardinality({sv \in Cells \X Digits :
                    \E n \in 1 .. Len(doms[sv[1]]) : doms[sv[1]][n] = sv[2]})

C12_ArcsOnlyAfterShrink ==
    run.status = "running"
        => /\ run' # run
           /\ \/ /\ C12_Values(run'.domains) = C12_Values(run.domains)
                 /\ Len(run'.arcs) < Len(run.arcs) \/ run'.status = "true"
              \/ /\ C12_Values(run'.domains) < C12_Values(run.domains)
                 /\ Len(run'.arcs) < Len(run.arcs) + Len(Related[<<0, 0>>])

C12_Returned == Size * Size

C12_Position(p, stk, rv) ==
    LET frames == [k \in 1 .. Len(stk) |-> 2 * stk[k].i]
    IN  CASE p = "solve" -> <<0>>
          [] p = "call" -> frames \o <<1>>
          [] p = "loop" -> frames
          [] p = "returned" /\ rv -> <<C12_Returned, Size * Size - Len(stk)>>
          [] p = "returned" /\ ~rv ->
                IF stk = <<>> THEN <<C12_Returned>>
                ELSE [frames EXCEPT ![Len(stk)] = @ + 1]
          [] OTHER -> <<C12_Returned + 1>>

C12_Before(a, b) ==
    \E n \in 1 .. Len(b) :
        /\ n <= Len(a) + 1
        /\ \A m \in 1 .. (n - 1) : a[m] = b[m]
        /\ n = Len(a) + 1 \/ a[n] < b[n]

C12_DepthBounded ==
    \A k \in 1 .. Len(stack) :
        /\ Len(stack) - k + 1 <= EmptyCount(stack[k].entry)
        /\ EmptyCount(stack[k].entry) <= Size * Size
        /\ stack[k].i <= Len(stack[k].validNums) + 1
        /\ Len(stack[k].validNums) <= Size

C12_CanStep ==
    \/ pc \in {"solve", "call", "returned"}
    \/ pc = "loop" /\ stack # <<>> /\ method \in 1 .. 3
    \/ pc = "ac3" /\ run.status = "running"

C12_Finished == pc = "done" \/ (pc = "ac3" /\ run.status \in {"true", "false"})

C12_EverySolveFinishes ==
    [][/\ C12_Finished \/ C12_CanStep
       /\ C12_DepthBounded
       /\ IF pc = "ac3" THEN C12_ArcsOnlyAfterShrink
          ELSE C12_Before(C12_Position(pc, stack, retval), C12_Position(pc', stack', retval'))
       /\ C12_Finished' \/ C12_CanStep'
       /\ C12_DepthBounded']_vars

C12_Witness ==
    /\ pc = "loop" /\ method = 1 /\ emptyFinder = 1 /\ valueOrder = 1 /\ useAC3 = 2
    /\ Len(stack) = EmptyCount(puzzle)
    /\ Len(stack) > Size

\* C16: at every entry to pruningMAC the domain of a filled square is its value alone,
\* and the domain of an empty square is a non-empty ascending list of digits with no
\* value that a filled peer holds.
C16_DomainsAtEntry ==
    (pc = "call" /\ method = 3)
        => LET doms == domains[Len(stack) + 1]
           IN  \A sq \in Cells :
                  IF board[sq] # 0 THEN doms[sq] = <<board[sq]>>
                  ELSE /\ doms[sq] # <<>>
                       /\ Range(doms[sq]) \subseteq Digits
                       /\ \A m, n \in 1 .. Len(doms[sq]) : m < n => doms[sq][m] < doms[sq][n]
                       /\ \A b \in Peers[sq] :
                             board[b] # 0 => \A n \in 1 .. Len(doms[sq]) : doms[sq][n] # board[b]

C16_Witness ==
    /\ pc = "call" /\ method = 3 /\ Len(stack) >= 2
    /\ \E sq \in Cells : board[sq] = 0 /\ Len(domains[Len(stack) + 1][sq]) >= 2

\* C17: in the plain pruning search steps goes up by one in the steps that pick an
\* empty square and in no other, backtracks by one in the steps that reset an assigned
\* square to 0 and in no other; when the search returns true steps - backtracks is the
\* number of squares that were empty at the call, and when it returns false, from a
\* grid with an empty square, steps = backtracks + 1.
C17_Picks == Len(stack') = Len(stack) + 1

C17_Resets == \E sq \in Cells : board[sq] # 0 /\ board'[sq] = 0

C17_AtReturn ==
    (pc' = "returned" /\ stack' = <<>>)
        => IF retval' THEN steps' - backtracks' = EmptyCount(called')
           ELSE EmptyCount(called') >= 1 => steps' = backtracks' + 1

C17_PruningCounters ==
    [][method = 1
          => /\ steps' = IF C17_Picks THEN steps + 1 ELSE steps
             /\ backtracks' = IF C17_Resets THEN backtracks + 1 ELSE backtracks
             /\ C17_AtReturn]_vars

C17_Witness ==
    /\ pc = "returned" /\ stack = <<>> /\ method = 1
    /\ retval /\ backtracks > 0
    /\ steps - backtracks = EmptyCount(called)
====
